---- MODULE Spec2Model ----
(***************************************************************************)
(* SensitivitySampler (shfl/differential_privacy/sensitivity_sampler.py).  *)
(* One call of sample_sensitivity, stepped at the collaborator calls       *)
(* (oracle.sample, query.get, sensitivity_norm.compute).                   *)
(*                                                                         *)
(* Floats are fixed-point integers in units of 1/One.  An optional value   *)
(* is a sequence of length at most one: None is << >>, v is <<v>>.         *)
(***************************************************************************)
EXTENDS Integers, Sequences, FiniteSets, TLC

\* ---------------------------------------------------------------- bounds
MaxM == 4          \* largest number of trials m explored
MaxN == 2          \* largest database size n explored
MaxSample == 2     \* norm.compute returns a value in 0..MaxSample

Records == {0, 1}  \* the records oracle.sample can draw

\* ------------------------------------------------------------ float model
One == 1000000     \* fixed-point unit of the float values
Inf == 999999      \* np.inf, larger than every sample

None == << >>
Some(v) == <<v>>
Val(o) == o[1]

\* np.ceil(num / den) for den > 0
Ceil(num, den) == -((-num) \div den)

\* The gamma values explored (0.5, 0.9 and the out-of-domain 2.0).
Gammas == {500000, 900000, 2000000}

\* rho = np.exp(np.real(special.lambertw(-1 / (4 * m), 1)) / 2), m = 1..8
RhoOfM == <<174668, 121574, 98213, 84368, 74967, 68057, 62708, 58411>>

\* gamma_lo = rho + np.sqrt(np.log(1 / rho) / (2 * m)), m = 1..8
GammaLoOfM == <<1108710, 847389, 720121, 640310, 583957, 541291, 507460, 479737>>

\* rho = np.exp(np.real(special.lambertw(-gamma / (2 * np.exp(0.5)), 1)) + 0.5)
RhoOfGamma(gamma) ==
    CASE gamma = 500000 -> 29841
      [] gamma = 900000 -> 55110
      [] gamma = 2000000 -> 125749

\* m = np.ceil(np.log(1 / rho) / (2 * pow((gamma - rho), 2)))
MOfGamma(gamma) ==
    CASE gamma = 500000 -> 8
      [] gamma = 900000 -> 3
      [] gamma = 2000000 -> 1

\* gamma_lo = rho + np.sqrt(np.log(1 / rho) / (2 * m)) for that rho and m
GammaLoOfGamma(gamma) ==
    CASE gamma = 500000 -> 498340
      [] gamma = 900000 -> 750143
      [] gamma = 2000000 -> 1143950

\* k = np.ceil(m * (1 - gamma + gamma_lo))
KOf(m, gamma, gamma_lo) == Ceil(m * (One - gamma + gamma_lo), One)

\* mutant: absent m and gamma default to a single trial instead of raising
sensitivity_sampler_config_default(m, gamma) ==
    IF m = None /\ gamma = None
    THEN [err |-> "none", m |-> 1, gamma |-> GammaLoOfM[1], k |-> 1, rho |-> RhoOfM[1]]
    ELSE IF m = None
    THEN [err |-> "none", m |-> MOfGamma(Val(gamma)), gamma |-> Val(gamma),
          k |-> KOf(MOfGamma(Val(gamma)), Val(gamma), GammaLoOfGamma(Val(gamma))),
          rho |-> RhoOfGamma(Val(gamma))]
    ELSE IF Val(m) = 0
    THEN [err |-> "ZeroDivisionError"]
    ELSE [err |-> "none", m |-> Val(m),
          gamma |-> IF gamma = None THEN GammaLoOfM[Val(m)] ELSE Val(gamma),
          k |-> IF gamma = None THEN Val(m) ELSE KOf(Val(m), Val(gamma), GammaLoOfM[Val(m)]),
          rho |-> RhoOfM[Val(m)]]

\* _sensitivity_sampler_config(m, gamma): the dictionary, or the exception
\* the arithmetic raises (-None, division by 4 * 0).
sensitivity_sampler_config(m, gamma) ==
    IF m = None
    THEN IF gamma = None
         THEN [err |-> "TypeError"]
         ELSE LET rho == RhoOfGamma(Val(gamma))
                  mm == MOfGamma(Val(gamma))
                  gamma_lo == GammaLoOfGamma(Val(gamma))
              IN  [err |-> "none", m |-> mm, gamma |-> Val(gamma),
                   k |-> KOf(mm, Val(gamma), gamma_lo), rho |-> rho]
    ELSE IF Val(m) = 0
         THEN [err |-> "ZeroDivisionError"]
         ELSE LET rho == RhoOfM[Val(m)]
                  gamma_lo == GammaLoOfM[Val(m)]
              IN  IF gamma = None
                  THEN [err |-> "none", m |-> Val(m), gamma |-> gamma_lo,
                        k |-> Val(m), rho |-> rho]
                  ELSE [err |-> "none", m |-> Val(m), gamma |-> Val(gamma),
                        k |-> KOf(Val(m), Val(gamma), gamma_lo), rho |-> rho]

\* ------------------------------------------------------------ numpy model
\* np.ones(m) * np.inf
OnesInf(m) == [j \in 1..m |-> Inf]

\* mutant: the new record is put in front of the database
ConcatenatePrepend(a, b) == b \o a

\* np.concatenate((a, b))
Concatenate(a, b) == a \o b

RECURSIVE Insert(_, _)
Insert(x, s) ==
    IF s = << >> THEN <<x>>
    ELSE IF x <= Head(s) THEN <<x>> \o s
    ELSE <<Head(s)>> \o Insert(x, Tail(s))

\* mutant: the array is left in trial order
SortNone(s) == s

RECURSIVE Sort(_)
\* np.sort(gs): ascending
Sort(s) == IF s = << >> THEN << >> ELSE Insert(Head(s), Sort(Tail(s)))

RECURSIVE Sum(_)
Sum(s) == IF s = << >> THEN 0 ELSE Head(s) + Sum(Tail(s))

\* mutant: the mean leaves out the largest sample
MeanWithoutLargest(s) == <<Sum(SubSeq(s, 1, Len(s) - 1)), Len(s)>>

\* np.mean(gs) as the exact fraction <<numerator, denominator>>
Mean(s) == <<Sum(s), Len(s)>>

\* gs[j] of Python: position (1-based) read for the 0-based index j, where a
\* negative j counts from the end; 0 when j is out of bounds (IndexError).
Position(len, j) ==
    IF j >= 0
    THEN IF j < len THEN j + 1 ELSE 0
    ELSE IF j >= -len THEN len + j + 1 ELSE 0

\* mutant: the loop stops one trial early
InRangeShort(j, m) == 0 <= j /\ j < m - 1

\* range(0, m) contains j
InRange(j, m) == 0 <= j /\ j < m

\* query.get(x): an uninterpreted deterministic function of the database
QueryGet(x) == [query_of |-> x]

\* all sequences of c records (oracle.sample(c))
RECURSIVE Draws(_)
Draws(c) ==
    IF c = 0 THEN {<< >>}
    ELSE {<<r>> \o s : r \in Records, s \in Draws(c - 1)}

\* ------------------------------------------------------------------ state
VARIABLES
    pc,          \* position in sample_sensitivity
    args,        \* the call's arguments n, m, gamma
    config,      \* sensitivity_sampler_config, None before calibration
    m, k,        \* the int(...) parameters of _sensitivity_sampler
    gs, i,       \* the samples array and the loop index
    db1, db2,    \* the two databases of the current trial
    value_1, value_2,   \* the query results of the current trial
    result,      \* None or <<sensitivity, mean>>
    error,       \* the exception raised, "none" if none
    oracleCalls, queryCalls, normCalls,   \* calls made to each collaborator
    trialLog,    \* the collaborator calls of the current trial, in order
    samples,     \* the values norm.compute returned, in order
    collabFailed \* a collaborator call has raised

vars == <<pc, args, config, m, k, gs, i, db1, db2, value_1, value_2, result,
          error, oracleCalls, queryCalls, normCalls, trialLog, samples,
          collabFailed>>

counters == <<oracleCalls, queryCalls, normCalls>>
locals == <<db1, db2, value_1, value_2>>

Init ==
    /\ pc = "idle"
    /\ args = None
    /\ config = None
    /\ m = 0 /\ k = 0
    /\ gs = << >> /\ i = 0
    /\ db1 = << >> /\ db2 = << >>
    /\ value_1 = None /\ value_2 = None
    /\ result = None
    /\ error = "none"
    /\ oracleCalls = 0 /\ queryCalls = 0 /\ normCalls = 0
    /\ trialLog = << >>
    /\ samples = << >>
    /\ collabFailed = FALSE

\* the arguments explored: m in {None, 0..MaxM}, gamma in {None} \cup Gammas,
\* capped so that the calibrated number of trials is at most MaxM
CallArgs ==
    {a \in [n : 1..MaxN,
            m : {None} \cup {Some(x) : x \in 0..MaxM},
            gamma : {None} \cup {Some(g) : g \in Gammas}] :
        LET c == sensitivity_sampler_config(a.m, a.gamma)
        IN  c.err = "none" => c.m <= MaxM}

\* sample_sensitivity, lines 35-43 and 63: calibrate, then enter the loop
Call(a) ==
    /\ pc = "idle"
    /\ args' = Some(a)
    /\ LET c == sensitivity_sampler_config(a.m, a.gamma)
       IN  IF c.err # "none"
           THEN /\ pc' = "raised"
                /\ error' = c.err
                /\ UNCHANGED <<config, m, k, gs>>
           ELSE /\ config' = Some(c)
                /\ m' = c.m
                /\ k' = c.k
                /\ gs' = OnesInf(c.m)
                /\ pc' = IF InRange(0, c.m) THEN "oracle_prefix" ELSE "reduce"
                /\ UNCHANGED error
    /\ UNCHANGED <<i, locals, result, counters, trialLog, samples, collabFailed>>

\* db1 = oracle.sample(n-1); db2 = db1
OraclePrefix ==
    /\ pc = "oracle_prefix"
    /\ \E s \in Draws(Val(args).n - 1) :
        /\ db1' = s
        /\ db2' = s
        /\ trialLog' = <<[call |-> "oracle.sample", arg |-> <<Val(args).n - 1>>, ret |-> s]>>
    /\ oracleCalls' = oracleCalls + 1
    /\ pc' = "oracle_db1"
    /\ UNCHANGED <<args, config, m, k, gs, i, value_1, value_2, result, error,
                   queryCalls, normCalls, samples, collabFailed>>

\* db1 = np.concatenate((db1, oracle.sample(1)))
OracleDb1(s) ==
    /\ pc = "oracle_db1"
    /\ db1' = Concatenate(db1, s)
    /\ oracleCalls' = oracleCalls + 1
    /\ trialLog' = Append(trialLog, [call |-> "oracle.sample", arg |-> <<1>>, ret |-> s])
    /\ pc' = "oracle_db2"
    /\ UNCHANGED <<args, config, m, k, gs, i, db2, value_1, value_2, result, error,
                   queryCalls, normCalls, samples, collabFailed>>

\* db2 = np.concatenate((db2, oracle.sample(1)))
OracleDb2(s) ==
    /\ pc = "oracle_db2"
    /\ db2' = Concatenate(db2, s)
    /\ oracleCalls' = oracleCalls + 1
    /\ trialLog' = Append(trialLog, [call |-> "oracle.sample", arg |-> <<1>>, ret |-> s])
    /\ pc' = "query_1"
    /\ UNCHANGED <<args, config, m, k, gs, i, db1, value_1, value_2, result, error,
                   queryCalls, normCalls, samples, collabFailed>>

\* value_1 = query.get(x1)
Query1 ==
    /\ pc = "query_1"
    /\ value_1' = Some(QueryGet(db1))
    /\ queryCalls' = queryCalls + 1
    /\ trialLog' = Append(trialLog, [call |-> "query.get", arg |-> db1, ret |-> <<QueryGet(db1)>>])
    /\ pc' = "query_2"
    /\ UNCHANGED <<args, config, m, k, gs, i, db1, db2, value_2, result, error,
                   oracleCalls, normCalls, samples, collabFailed>>

\* value_2 = query.get(x2)
Query2 ==
    /\ pc = "query_2"
    /\ value_2' = Some(QueryGet(db2))
    /\ queryCalls' = queryCalls + 1
    /\ trialLog' = Append(trialLog, [call |-> "query.get", arg |-> db2, ret |-> <<QueryGet(db2)>>])
    /\ pc' = "norm"
    /\ UNCHANGED <<args, config, m, k, gs, i, db1, db2, value_1, result, error,
                   oracleCalls, normCalls, samples, collabFailed>>

\* gs[i] = sensitivity_norm.compute(value_1, value_2), and the loop's step
NormCompute(v) ==
    /\ pc = "norm"
    /\ gs' = [gs EXCEPT ![i + 1] = v]
    /\ normCalls' = normCalls + 1
    /\ trialLog' = Append(trialLog, [call |-> "norm.compute",
                                     arg |-> <<Val(value_1), Val(value_2)>>, ret |-> <<v>>])
    /\ samples' = Append(samples, v)
    /\ i' = i + 1
    /\ pc' = IF InRange(i + 1, m) THEN "oracle_prefix" ELSE "reduce"
    /\ UNCHANGED <<args, config, m, k, db1, db2, value_1, value_2, result, error,
                   oracleCalls, queryCalls, collabFailed>>

CollaboratorPcs ==
    {"oracle_prefix", "oracle_db1", "oracle_db2", "query_1", "query_2", "norm"}

\* mutant: the exception is swallowed and the loop goes on to the next trial
CollaboratorSwallowed ==
    /\ pc \in CollaboratorPcs
    /\ oracleCalls' = oracleCalls + (IF pc \in {"oracle_prefix", "oracle_db1", "oracle_db2"} THEN 1 ELSE 0)
    /\ queryCalls' = queryCalls + (IF pc \in {"query_1", "query_2"} THEN 1 ELSE 0)
    /\ normCalls' = normCalls + (IF pc = "norm" THEN 1 ELSE 0)
    /\ collabFailed' = TRUE
    /\ i' = i + 1
    /\ pc' = IF i + 1 < m THEN "oracle_prefix" ELSE "reduce"
    /\ UNCHANGED <<args, config, m, k, gs, locals, result, error, trialLog, samples>>

\* the collaborator call at pc raises: nothing in lines 65-70 or 91-94 catches
\* it, so it leaves sample_sensitivity
CollaboratorRaises ==
    /\ pc \in CollaboratorPcs
    /\ oracleCalls' = oracleCalls + (IF pc \in {"oracle_prefix", "oracle_db1", "oracle_db2"} THEN 1 ELSE 0)
    /\ queryCalls' = queryCalls + (IF pc \in {"query_1", "query_2"} THEN 1 ELSE 0)
    /\ normCalls' = normCalls + (IF pc = "norm" THEN 1 ELSE 0)
    /\ collabFailed' = TRUE
    /\ error' = "CollaboratorError"
    /\ pc' = "raised"
    /\ UNCHANGED <<args, config, m, k, gs, i, locals, result, trialLog, samples>>

\* gs = np.sort(gs); return gs[k - 1], np.mean(gs)
Reduce ==
    /\ pc = "reduce"
    /\ gs' = Sort(gs)
    /\ LET p == Position(Len(gs), k - 1)
       IN  IF p = 0
           THEN /\ pc' = "raised"
                /\ error' = "IndexError"
                /\ UNCHANGED result
           ELSE /\ pc' = "returned"
                /\ result' = <<gs'[p], Mean(gs')>>
                /\ UNCHANGED error
    /\ UNCHANGED <<args, config, m, k, i, locals, counters, trialLog, samples,
                   collabFailed>>

Next ==
    \/ \E a \in CallArgs : Call(a)
    \/ OraclePrefix
    \/ \E s \in Draws(1) : OracleDb1(s)
    \/ \E s \in Draws(1) : OracleDb2(s)
    \/ Query1
    \/ Query2
    \/ \E v \in 0..MaxSample : NormCompute(v)
    \/ CollaboratorRaises
    \/ Reduce

Spec == Init /\ [][Next]_vars

\* ----------------------------------------------------------------- claims
n == Val(args).n
Called == args # None
Returned == pc = "returned"
sensitivity == result[1]
mean == result[2]
Below(v) == Cardinality({j \in 1..Len(samples) : samples[j] < v})
AtMost(v) == Cardinality({j \in 1..Len(samples) : samples[j] <= v})
MaxOf(s) == CHOOSE v \in {s[j] : j \in 1..Len(s)} : \A j \in 1..Len(s) : s[j] <= v
BothAbsent == Called /\ Val(args).m = None /\ Val(args).gamma = None

C2_MeanOfSamples ==
    Returned =>
        /\ Len(samples) = m
        /\ mean[2] > 0
        /\ mean[1] * m = Sum(samples) * mean[2]

\* a call returned with k # m and samples that are not all equal
C2_Witness ==
    /\ Returned /\ k # m /\ m >= 3
    /\ \E j \in 1..m : samples[j] # samples[1]

\* C3 (as stated): a call with m and gamma both absent fails with an
\* InvalidConfiguration error and returns no estimate.
C3_InvalidConfiguration ==
    BothAbsent => (pc = "raised" /\ error = "InvalidConfiguration" /\ result = None)

\* C3 (amended): a call with m and gamma both absent fails with the TypeError
\* of negating the absent gamma; no estimate is returned and no collaborator
\* is called.
C3_FailsWithTypeError ==
    BothAbsent =>
        /\ pc = "raised" /\ error = "TypeError" /\ result = None
        /\ config = None
        /\ oracleCalls = 0 /\ queryCalls = 0 /\ normCalls = 0

\* a call with both absent has been made
C3_Witness == BothAbsent /\ pc = "raised"

\* C4: a call with n < 2 fails with an error: it never returns a
\* (sensitivity, mean) pair.
C4_SmallNFails ==
    (Called /\ n < 2) => (~Returned /\ result = None)

\* C5: when calibration gives k outside 1..m the call (here with n >= 2)
\* fails: no pair is returned whose sensitivity was read at a clamped or
\* wrapped index.
C5_OutOfRangeKFails ==
    (config # None /\ n >= 2 /\ (k < 1 \/ k > m)) => (~Returned /\ result = None)

\* C6: for valid inputs (m absent or positive, gamma absent or in (0,1), not
\* both absent, n >= 2) the calibrator's dictionary has 1 <= k <= m and rho in (0,1),
\* and k = m when m is supplied alone.
ValidInputs ==
    /\ Called /\ ~BothAbsent /\ n >= 2
    /\ Val(args).m # None => Val(Val(args).m) >= 1
    /\ Val(args).gamma # None => (0 < Val(Val(args).gamma) /\ Val(Val(args).gamma) < One)

C6_CalibratedRanges ==
    (ValidInputs /\ config # None) =>
        /\ 1 <= Val(config).k /\ Val(config).k <= Val(config).m
        /\ 0 < Val(config).rho /\ Val(config).rho < One
        /\ (Val(args).m # None /\ Val(args).gamma = None) => Val(config).k = Val(config).m

\* C7: in every trial the databases passed to query.get have size n, both
\* start with the n-1 records of the trial's oracle.sample(n-1) draw, and end
\* with the record of the first, respectively the second, oracle.sample(1).
IsNeighbor(db, prefix, last) ==
    /\ Len(db) = n
    /\ SubSeq(db, 1, n - 1) = prefix
    /\ <<db[n]>> = last

C7_NeighborPair ==
    /\ Len(trialLog) >= 3 =>
        /\ trialLog[1].call = "oracle.sample" /\ trialLog[1].arg = <<n - 1>>
        /\ trialLog[2].call = "oracle.sample" /\ trialLog[2].arg = <<1>>
        /\ trialLog[3].call = "oracle.sample" /\ trialLog[3].arg = <<1>>
        /\ Len(trialLog[1].ret) = n - 1
    /\ Len(trialLog) >= 4 =>
        /\ trialLog[4].call = "query.get"
        /\ IsNeighbor(trialLog[4].arg, trialLog[1].ret, trialLog[2].ret)
    /\ Len(trialLog) >= 5 =>
        /\ trialLog[5].call = "query.get"
        /\ IsNeighbor(trialLog[5].arg, trialLog[1].ret, trialLog[3].ret)

\* a later trial queried two databases of size 2 that differ in the last
\* record only, the shared record being different from D1's last one
C7_Witness ==
    /\ i >= 1 /\ Len(trialLog) >= 5 /\ n = 2
    /\ trialLog[4].arg # trialLog[5].arg
    /\ trialLog[4].arg[1] # trialLog[4].arg[2]

\* C8: once a collaborator call has raised, the call of sample_sensitivity
\* has failed with that error, no estimate is returned, and no collaborator
\* is called again.
C8_FailureAborts ==
    [][ /\ collabFailed' =>
            /\ pc' = "raised" /\ error' = "CollaboratorError" /\ result' = None
            /\ i' < m' /\ Len(samples') = i'
        /\ collabFailed => UNCHANGED <<counters, result, gs, i, samples>> ]_vars

\* a collaborator raised in a trial after an earlier trial had completed
C8_Witness == collabFailed /\ i >= 1 /\ pc = "raised" /\ oracleCalls = 3 * i + 2

\* C9: a call (here with n >= 2) that fails because of the calibration (any
\* failure that is not a collaborator's) has called no collaborator.
C9_CalibrationFailsFirst ==
    (pc = "raised" /\ n >= 2 /\ ~collabFailed) =>
        (oracleCalls = 0 /\ queryCalls = 0 /\ normCalls = 0)

\* C10: each trial calls oracle.sample(n-1), oracle.sample(1), oracle.sample(1),
\* query.get(D1), query.get(D2), norm.compute(the two results) in this order;
\* the array is sorted only after the last trial, and a call that returns has
\* run m trials: 3m oracle calls, 2m query calls, m norm calls, every slot of
\* gs overwritten by a sample.
ExpectedCalls ==
    <<"oracle.sample", "oracle.sample", "oracle.sample", "query.get", "query.get",
      "norm.compute">>

InLoop == pc \in CollaboratorPcs

C10_TrialProtocol ==
    /\ Len(trialLog) <= 6
    /\ \A j \in 1..Len(trialLog) : trialLog[j].call = ExpectedCalls[j]
    /\ Len(trialLog) >= 1 => trialLog[1].arg = <<n - 1>>
    /\ Len(trialLog) >= 2 => trialLog[2].arg = <<1>>
    /\ Len(trialLog) >= 3 => trialLog[3].arg = <<1>>
    /\ Len(trialLog) >= 4 => trialLog[4].arg = db1
    /\ Len(trialLog) >= 5 => trialLog[5].arg = db2
    /\ Len(trialLog) = 6 => trialLog[6].arg = <<trialLog[4].ret[1], trialLog[5].ret[1]>>
    /\ (InLoop \/ pc = "reduce") =>
        /\ Len(samples) = i
        /\ \A j \in 1..m : gs[j] = IF j <= i THEN samples[j] ELSE Inf
    /\ InLoop => i < m
    /\ (pc = "reduce" \/ Returned) =>
        /\ i = m /\ Len(samples) = m /\ Len(trialLog) = 6
        /\ oracleCalls = 3 * m /\ queryCalls = 2 * m /\ normCalls = m
    /\ Returned => \A j \in 1..m : gs[j] # Inf

\* a call of three trials on databases of size 2 has returned
C10_Witness == Returned /\ m = 3 /\ n = 2 /\ oracleCalls = 9

====
